---- MODULE Spec2Model ----
(***************************************************************************)
(* Model of the documentation synchronisation commands of the rag CLI:     *)
(* `docs add`, `docs update`, `docs remove` and the helpers they share     *)
(* (add_file_to_documentation, delete_files_and_chunks), over the three    *)
(* tables of the store (documentations, files, chunks).                    *)
(*                                                                         *)
(* Every `await` of the commands is one step of the model, so that the     *)
(* states in which a command can be abandoned by an exception are states   *)
(* of the model.  The store primitives, hash_file, get_md_files,            *)
(* get_file_chunks, clone_repo and embed are called by the commands but    *)
(* not implemented in the repository yet; they are modelled from the       *)
(* table schema and from the specification.                                *)
(***************************************************************************)
EXTENDS Integers, Sequences, FiniteSets, TLC

\* ------------------------------------------------------------------ bounds

\* Number of commands run in one behaviour.
MaxOps == 3

\* Number of awaited calls that reject in one behaviour.
MaxFailures == 1

\* ----------------------------------------------------------------- domains

\* The process that runs the commands one after the other.
Procs == {"p1"}

\* The processes of the runs in which two commands overlap.
AllProcs == {"p1", "p2"}

Names == {"demo", "lib"}
Repos == {"r1"}
Subdirs == {"."}
Branches == {"main"}

\* A value a JavaScript expression evaluates to when the property or the
\* option is missing.
Undefined == "undefined"

\* Relative paths of markdown files, in the enumeration order of get_md_files.
Paths == <<"a.md", "b.md">>

\* A markdown document is a sequence of structural blocks.
Contents == {<<"x">>, <<"x", "y">>}

\* The versions a file has upstream: a.md has two, b.md one.
Versions(path) == IF path = "a.md" THEN Contents ELSE {<<"x">>}

\* A checked-out tree: the markdown files found under the clone path.
Trees ==
  {t \in SUBSET [path : {Paths[i] : i \in 1..Len(Paths)}, content : Contents] :
     /\ \A e1, e2 \in t : e1.path = e2.path => e1 = e2
     /\ \A e \in t : e.content \in Versions(e.path)}

TreePaths(tree) == {e.path : e \in tree}

ContentAt(tree, path) == (CHOOSE e \in tree : e.path = path).content

\* ------------------------------------------------------ external functions

BlockCode(b) == IF b = "x" THEN 1 ELSE IF b = "y" THEN 2 ELSE 3

\* hash_file: a digest of the file's content.
RECURSIVE hash_file(_)
hash_file(content) ==
  IF content = <<>> THEN 7
  ELSE (BlockCode(Head(content)) + 31 * hash_file(Tail(content))) % 256

\* get_md_files: the relative paths under the clone, in enumeration order.
get_md_files(tree) == SelectSeq(Paths, LAMBDA p : p \in TreePaths(tree))

\* The tokenizer: the number of tokens of a structural block and of a text.
BlockTokens(b) == IF b = "x" THEN 1 ELSE IF b = "y" THEN 2 ELSE 3

RECURSIVE token_count(_)
token_count(content) ==
  IF content = <<>> THEN 0
  ELSE BlockTokens(Head(content)) + token_count(Tail(content))

\* The token limit of the embedding model.
TokenLimit == 2

\* First pass of the chunker: consecutive blocks are accumulated into the
\* current chunk while its token count stays within the limit; a block is
\* never split, so a block over the limit ends up alone in its chunk.
RECURSIVE Segments(_, _)
Segments(blocks, current) ==
  IF blocks = <<>>
    THEN IF current = <<>> THEN <<>> ELSE <<current>>
    ELSE LET b == Head(blocks)
         IN IF current = <<>> \/ token_count(current) + BlockTokens(b) <= TokenLimit
              THEN Segments(Tail(blocks), Append(current, b))
              ELSE <<current>> \o Segments(Tail(blocks), <<b>>)

\* The chunker emitting the whole document as one chunk.
get_file_chunks_unsplit(content) ==
  LET segs == IF content = <<>> THEN <<>> ELSE <<content>>
  IN [i \in 1..Len(segs) |->
        [metadata |-> [chunk_index |-> i - 1, chunk_count |-> Len(segs),
                       oversized |-> /\ Len(segs[i]) = 1
                                     /\ BlockTokens(segs[i][1]) > TokenLimit],
         content |-> segs[i]]]

\* get_file_chunks: the chunk drafts of a document in order, each with its
\* ordinal, the total count (second pass) and the flag of an atomic unit
\* that alone exceeds the token limit.
get_file_chunks(content) ==
  LET segs == Segments(content, <<>>)
  IN [i \in 1..Len(segs) |->
        [metadata |-> [chunk_index |-> i - 1, chunk_count |-> Len(segs),
                       oversized |-> /\ Len(segs[i]) = 1
                                     /\ BlockTokens(segs[i][1]) > TokenLimit],
         content |-> segs[i]]]

\* The text handed to embed: serialized metadata, delimiter, raw content.
embed_text(metadata, content) == <<metadata, "---", content>>

\* embed: the vector of a text.
embed(text) ==
  (hash_file(text[3]) + 3 * text[1].chunk_index + 5 * text[1].chunk_count) % 256

\* ------------------------------------------------------------------ config

\* A YAML scalar with its runtime type, and the value of a key that is absent.
String(value) == [type |-> "string", value |-> value]
Number(value) == [type |-> "number", value |-> value]
Missing == [type |-> "undefined", value |-> ""]

\* const defaults: Config = { database_path: path.join(os.homedir(), '.rag/db.sqlite') }
defaults == [database_path |-> String("~/.rag/db.sqlite")]

\* The values config.set is called with: a valid one and one whose
\* database_path is not a string.
SetValues == {[database_path |-> String("/data/rag.sqlite")],
              [database_path |-> Number("42")]}

\* yaml.stringify of a configuration: the key and the scalar as written.
yaml_stringify(value) == <<"database_path", value.database_path.value>>

\* The scalars YAML reads as numbers.
NumberTexts == {"42"}

\* yaml.parse of the text of the config file: the object with the keys found.
yaml_parse(text) ==
  IF text[1] = "database_path"
    THEN [database_path |-> IF text[2] \in NumberTexts THEN Number(text[2])
                            ELSE String(text[2])]
    ELSE [database_path |-> Missing]

\* const Config = z.object({ database_path: z.string() })
\* Config.parse(value): the configuration, or nothing when it throws.
Config_parse(value) ==
  IF value.database_path.type = "string"
    THEN {[database_path |-> value.database_path]}
    ELSE {}

\* The config file a process can find: none, the defaults written by an
\* earlier run, one edited to another path, one with a typo in the key and
\* one with a number for the path.
ConfigFiles == {{},
                {yaml_stringify(defaults)},
                {<<"database_path", "/data/rag.sqlite">>},
                {<<"databse_path", "/data/rag.sqlite">>},
                {<<"database_path", "42">>}}

\* ------------------------------------------------------------------- state

VARIABLES
  documentations,  \* rows of table documentations
  files,           \* rows of table files
  chunks,          \* rows of table chunks
  pc,              \* where each process is in its command
  op,              \* the command a process runs, with its arguments
  loc,             \* the local variables of the command
  result,          \* how the last command of a process ended
  pre,             \* history: the store when the command started
  prev,            \* history: the command that ran before, if it returned
  nops,            \* number of commands started
  nfail,           \* number of awaited calls that rejected
  config,          \* let config: Config | undefined (absent: {})
  disk,            \* the config file, the database files and those holding the tables
  io,              \* stdin, stdout and the exit status of the process
  observed         \* history: what the config module and main did

store == <<documentations, files, chunks>>
environment == <<config, disk, io, observed>>
vars == <<documentations, files, chunks, pc, op, loc, result, pre, prev, nops, nfail,
          config, disk, io, observed>>

Store == [documentations |-> documentations, files |-> files, chunks |-> chunks]

NoOp == [branch |-> Undefined, kind |-> "none", name |-> Undefined,
         repo_url |-> Undefined, subdir |-> Undefined]

InitLoc ==
  [checkout |-> {},        \* arguments clone_repo was called with
   chunks |-> <<>>,        \* const chunks = await get_file_chunks(...)
   clone |-> {},           \* tree found under clone_path
   documentation |-> {},   \* const documentation (absent: {})
   embedding |-> {},       \* const embedding = await embed(text)
   file |-> {},            \* const file = await db.files.create(...)
   filename |-> Undefined,
   files |-> {},           \* const files = await db.files.find(...)
   index |-> 0,
   md |-> <<>>,            \* filenames get_md_files has still to yield
   seen_filenames |-> {},
   todel |-> <<>>]         \* files delete_files_and_chunks has still to delete

NoResult == [at |-> "none", status |-> "none"]

\* Nothing read from stdin, nothing printed, the process has not exited.
NoIo == [exit |-> {}, stderr |-> <<>>, stdin |-> "", stdin_read |-> FALSE, stdout |-> <<>>]

\* Nothing observed yet.
NoObserved == [actions |-> 0,      \* command actions run
               created |-> {},     \* database files db.create created
               found |-> {},       \* database files found when init was called
               reads |-> 0,        \* reads of the config file
               returned |-> {},    \* values config.get returned
               written |-> {}]     \* texts written to the config file

\* The environment of a docs command: init has run in an earlier process,
\* the config file holds the defaults and the database file exists.
Initialized ==
  /\ config = {}
  /\ disk = [config_file |-> {yaml_stringify(defaults)},
             databases |-> {defaults.database_path.value},
             tables |-> {defaults.database_path.value}]
  /\ io = NoIo
  /\ observed = NoObserved

NoPrev == [kind |-> "none", name |-> Undefined, status |-> "none", tree |-> {}]

Init ==
  /\ documentations = {}
  /\ files = {}
  /\ chunks = {}
  /\ pc = [p \in Procs |-> "idle"]
  /\ op = [p \in Procs |-> NoOp]
  /\ loc = [p \in Procs |-> InitLoc]
  /\ result = [p \in Procs |-> NoResult]
  /\ pre = [p \in Procs |-> [chunks |-> {}, documentations |-> {}, files |-> {}]]
  /\ prev = [p \in Procs |-> NoPrev]
  /\ nops = 0
  /\ nfail = 0
  /\ Initialized

\* The state after construction when two processes share the database.
InitConc ==
  /\ documentations = {}
  /\ files = {}
  /\ chunks = {}
  /\ pc = [p \in AllProcs |-> "idle"]
  /\ op = [p \in AllProcs |-> NoOp]
  /\ loc = [p \in AllProcs |-> InitLoc]
  /\ result = [p \in AllProcs |-> NoResult]
  /\ pre = [p \in AllProcs |-> [chunks |-> {}, documentations |-> {}, files |-> {}]]
  /\ prev = [p \in AllProcs |-> NoPrev]
  /\ nops = 0
  /\ nfail = 0
  /\ Initialized

\* ------------------------------------------------------------ the store

Max(S) == CHOOSE x \in S : \A y \in S : y <= x

\* id INTEGER PRIMARY KEY: one more than the largest id in the table.
NextId(rows) == IF rows = {} THEN 1 ELSE Max({r.id : r \in rows}) + 1

\* db.documentations.has / get
documentations_get(name) == {d \in documentations : d.name = name}

documentations_has(name) == documentations_get(name) # {}

\* db.files.find({ documentation_id })
files_find(documentation_id) == {f \in files : f.documentation_id = documentation_id}

\* A JavaScript property read: undefined when the object has no such property.
Prop(obj, key) == IF key \in DOMAIN obj THEN obj[key] ELSE Undefined

\* The rows of a set as an array, in id order.
RECURSIVE ById(_)
ById(rows) ==
  IF rows = {} THEN <<>>
  ELSE LET r == CHOOSE x \in rows : \A y \in rows : x.id <= y.id
       IN <<r>> \o ById(rows \ {r})

\* ------------------------------------------------------- control helpers

Goto(self, label) ==
  /\ pc' = [pc EXCEPT ![self] = label]
  /\ UNCHANGED result

\* The command returns (status "ok") or rejects with an error.
Finish(self, status) ==
  /\ pc' = [pc EXCEPT ![self] = "idle"]
  /\ result' = [result EXCEPT ![self] = [status |-> status, at |-> pc[self]]]

GotoOrReturn(self, label) ==
  IF label = "return" THEN Finish(self, "ok") ELSE Goto(self, label)

history == <<pre, prev, nops, nfail>>

\* ------------------------------------------------------- command starts

Begin(self, command, first) ==
  /\ pc[self] = "idle"
  /\ nops < MaxOps
  /\ nops' = nops + 1
  /\ UNCHANGED nfail
  /\ op' = [op EXCEPT ![self] = command]
  /\ loc' = [loc EXCEPT ![self] = InitLoc]
  /\ pc' = [pc EXCEPT ![self] = first]
  /\ result' = [result EXCEPT ![self] = NoResult]
  /\ pre' = [pre EXCEPT ![self] = Store]
  /\ prev' = [prev EXCEPT ![self] =
                IF result[self].status = "ok"
                  THEN [kind |-> op[self].kind, name |-> op[self].name,
                        tree |-> loc[self].clone, status |-> "ok"]
                  ELSE NoPrev]
  /\ UNCHANGED <<store, environment>>

\* rag docs add <name> <repo_url> [--subdir <subdir>] [--branch <branch>]
StartAdd(self) ==
  \E name \in Names, repo_url \in Repos, subdir \in Subdirs, branch \in Branches :
    Begin(self, [kind |-> "add", name |-> name, repo_url |-> repo_url,
                 subdir |-> subdir, branch |-> branch], "add_has")

\* The options given to update; an option not given is undefined.
UpdateOptions == [repo_url : {Undefined}, subdir : {Undefined}, branch : {Undefined}]

\* rag docs update <name> [--repo_url <repo_url>] [--subdir <subdir>] [--branch <branch>]
StartUpdate(self) ==
  \E name \in Names, options \in UpdateOptions :
    Begin(self, [kind |-> "update", name |-> name, repo_url |-> options.repo_url,
                 subdir |-> options.subdir, branch |-> options.branch], "upd_get")

\* The options of an update that moves the documentation: each of
\* --repo_url, --subdir and --branch is given with a new value or not given.
MovingOptions ==
  [repo_url : {Undefined, "r2"}, subdir : {Undefined, "docs"}, branch : {Undefined, "dev"}]

\* rag docs update <name> with any of the options given.
StartUpdateMoving(self) ==
  \E name \in Names, options \in MovingOptions :
    Begin(self, [kind |-> "update", name |-> name, repo_url |-> options.repo_url,
                 subdir |-> options.subdir, branch |-> options.branch], "upd_get")

\* rag docs remove <name>
StartRemove(self) ==
  \E name \in Names :
    Begin(self, [kind |-> "remove", name |-> name, repo_url |-> Undefined,
                 subdir |-> Undefined, branch |-> Undefined], "rm_get")

\* ------------------------------------------- add_file_to_documentation

\* Where add_file_to_documentation returns to: the loop of its caller.
AftdReturn(self) == IF op[self].kind = "add" THEN "add_loop" ELSE "upd_loop"

\* for (let index = 0; index < chunks.length; index++)
AftdLoop(self, index, chunks_) ==
  IF index < Len(chunks_) THEN "aftd_embed" ELSE AftdReturn(self)

\* const chunks = await get_file_chunks(absolute_path)
aftd_chunks(self) ==
  /\ pc[self] = "aftd_chunks"
  /\ loc' = [loc EXCEPT ![self].chunks =
               get_file_chunks(ContentAt(loc[self].clone, loc[self].filename))]
  /\ Goto(self, "aftd_file")
  /\ UNCHANGED <<store, op, history, environment>>

\* add_file_to_documentation writing the new hash into the File row the
\* documentation already has for the path, when it has one.
aftd_file_upsert(self) ==
  /\ pc[self] = "aftd_file"
  /\ LET doc == CHOOSE d \in loc[self].documentation : TRUE
         hash == hash_file(ContentAt(loc[self].clone, loc[self].filename))
         old == {f \in files : f.documentation_id = doc.id /\ f.path = loc[self].filename}
         row == IF old = {}
                  THEN [id |-> NextId(files), documentation_id |-> doc.id,
                        path |-> loc[self].filename, hash |-> hash]
                  ELSE [(CHOOSE f \in old : TRUE) EXCEPT !.hash = hash]
     IN /\ files' = {f \in files : f.id # row.id} \cup {row}
        /\ loc' = [loc EXCEPT ![self].file = {row}, ![self].index = 0]
        /\ Goto(self, AftdLoop(self, 0, loc[self].chunks))
  /\ UNCHANGED <<documentations, chunks, op, history, environment>>

\* const file = await db.files.create({ documentation_id, path, hash })
aftd_file(self) ==
  /\ pc[self] = "aftd_file"
  /\ LET doc == CHOOSE d \in loc[self].documentation : TRUE
         row == [id |-> NextId(files),
                 documentation_id |-> doc.id,
                 path |-> loc[self].filename,
                 hash |-> hash_file(ContentAt(loc[self].clone, loc[self].filename))]
     IN /\ files' = files \cup {row}
        /\ loc' = [loc EXCEPT ![self].file = {row}, ![self].index = 0]
        /\ Goto(self, AftdLoop(self, 0, loc[self].chunks))
  /\ UNCHANGED <<documentations, chunks, op, history, environment>>

\* add_file_to_documentation embedding the raw content without the metadata.
aftd_embed_content_only(self) ==
  /\ pc[self] = "aftd_embed"
  /\ LET draft == loc[self].chunks[loc[self].index + 1]
     IN loc' = [loc EXCEPT ![self].embedding =
                  {embed(embed_text([chunk_index |-> 0, chunk_count |-> 0],
                                    draft.content))}]
  /\ Goto(self, "aftd_chunk")
  /\ UNCHANGED <<store, op, history, environment>>

\* const embedding = await embed(`${yaml.stringify(metadata)}\n---\n${content}`)
aftd_embed(self) ==
  /\ pc[self] = "aftd_embed"
  /\ LET draft == loc[self].chunks[loc[self].index + 1]
     IN loc' = [loc EXCEPT ![self].embedding =
                  {embed(embed_text(draft.metadata, draft.content))}]
  /\ Goto(self, "aftd_chunk")
  /\ UNCHANGED <<store, op, history, environment>>

\* add_file_to_documentation creating the rows of all the chunks that are
\* left in one go, as Promise.all over the chunks would.
aftd_chunk_all_at_once(self) ==
  /\ pc[self] = "aftd_chunk"
  /\ LET file == CHOOSE f \in loc[self].file : TRUE
         n == Len(loc[self].chunks)
         todo == loc[self].index .. (n - 1)
         row(i) == [id |-> NextId(chunks) + (i - loc[self].index),
                    file_id |-> file.id,
                    index |-> i,
                    metadata |-> loc[self].chunks[i + 1].metadata,
                    content |-> loc[self].chunks[i + 1].content,
                    embedding |-> embed(embed_text(loc[self].chunks[i + 1].metadata,
                                                   loc[self].chunks[i + 1].content))]
     IN /\ chunks' = chunks \cup {row(i) : i \in todo}
        /\ loc' = [loc EXCEPT ![self].index = n, ![self].embedding = {}]
        /\ Goto(self, AftdLoop(self, n, loc[self].chunks))
  /\ UNCHANGED <<documentations, files, op, history, environment>>

\* add_file_to_documentation numbering the chunks of a file from 1.
aftd_chunk_one_based(self) ==
  /\ pc[self] = "aftd_chunk"
  /\ LET draft == loc[self].chunks[loc[self].index + 1]
         file == CHOOSE f \in loc[self].file : TRUE
         row == [id |-> NextId(chunks),
                 file_id |-> file.id,
                 index |-> loc[self].index + 1,
                 metadata |-> draft.metadata,
                 content |-> draft.content,
                 embedding |-> CHOOSE e \in loc[self].embedding : TRUE]
     IN /\ chunks' = chunks \cup {row}
        /\ loc' = [loc EXCEPT ![self].index = loc[self].index + 1,
                              ![self].embedding = {}]
        /\ Goto(self, AftdLoop(self, loc[self].index + 1, loc[self].chunks))
  /\ UNCHANGED <<documentations, files, op, history, environment>>

\* await db.chunks.create({ file_id: file.id, index, metadata, content, embedding })
aftd_chunk(self) ==
  /\ pc[self] = "aftd_chunk"
  /\ LET draft == loc[self].chunks[loc[self].index + 1]
         file == CHOOSE f \in loc[self].file : TRUE
         row == [id |-> NextId(chunks),
                 file_id |-> file.id,
                 index |-> loc[self].index,
                 metadata |-> draft.metadata,
                 content |-> draft.content,
                 embedding |-> CHOOSE e \in loc[self].embedding : TRUE]
     IN /\ chunks' = chunks \cup {row}
        /\ loc' = [loc EXCEPT ![self].index = loc[self].index + 1,
                              ![self].embedding = {}]
        /\ Goto(self, AftdLoop(self, loc[self].index + 1, loc[self].chunks))
  /\ UNCHANGED <<documentations, files, op, history, environment>>

\* ------------------------------------------------------------------ add

\* add without its existence check.
add_has_unchecked(self) ==
  /\ pc[self] = "add_has"
  /\ Goto(self, "add_clone")
  /\ UNCHANGED <<store, op, loc, history, environment>>

\* add creating the Documentation row before it checks the repository out.
add_has_creates_first(self) ==
  /\ pc[self] = "add_has"
  /\ IF documentations_has(op[self].name)
       THEN /\ Finish(self, "AlreadyExists")
            /\ UNCHANGED documentations
       ELSE /\ documentations' = documentations \cup
                 {[id |-> NextId(documentations),
                   name |-> op[self].name,
                   repo_url |-> op[self].repo_url,
                   subdir |-> op[self].subdir,
                   branch |-> op[self].branch]}
            /\ Goto(self, "add_clone")
  /\ UNCHANGED <<files, chunks, op, loc, history, environment>>

\* if (await db.documentations.has(name)) throw new Error(`... already exists ...`)
add_has(self) ==
  /\ pc[self] = "add_has"
  /\ IF documentations_has(op[self].name)
       THEN Finish(self, "AlreadyExists")
       ELSE Goto(self, "add_clone")
  /\ UNCHANGED <<store, op, loc, history, environment>>

\* const clone_path = await clone_repo(repo_url, options)
add_clone(self) ==
  /\ pc[self] = "add_clone"
  /\ \E tree \in Trees :
       loc' = [loc EXCEPT
                 ![self].checkout = {[repo_url |-> op[self].repo_url,
                                      subdir |-> op[self].subdir,
                                      branch |-> op[self].branch]},
                 ![self].clone = tree]
  /\ Goto(self, "add_create")
  /\ UNCHANGED <<store, op, history, environment>>

\* add inserting into a documentations table whose name column is not UNIQUE.
add_create_not_unique(self) ==
  /\ pc[self] = "add_create"
  /\ LET row == [id |-> NextId(documentations),
                 name |-> op[self].name,
                 repo_url |-> op[self].repo_url,
                 subdir |-> op[self].subdir,
                 branch |-> op[self].branch]
     IN /\ documentations' = documentations \cup {row}
        /\ loc' = [loc EXCEPT ![self].documentation = {row},
                              ![self].md = get_md_files(loc[self].clone)]
        /\ Goto(self, "add_loop")
        /\ UNCHANGED <<files, chunks>>
  /\ UNCHANGED <<op, history, environment>>

\* const documentation = await db.documentations.create({ name, repo_url, ...options })
\* const md_files = get_md_files(clone_path)
add_create(self) ==
  /\ pc[self] = "add_create"
  /\ IF documentations_has(op[self].name)
       THEN \* name TEXT UNIQUE: the insert is refused
            /\ Finish(self, "error")
            /\ UNCHANGED <<store, loc>>
       ELSE LET row == [id |-> NextId(documentations),
                        name |-> op[self].name,
                        repo_url |-> op[self].repo_url,
                        subdir |-> op[self].subdir,
                        branch |-> op[self].branch]
            IN /\ documentations' = documentations \cup {row}
               /\ loc' = [loc EXCEPT ![self].documentation = {row},
                                     ![self].md = get_md_files(loc[self].clone)]
               /\ Goto(self, "add_loop")
               /\ UNCHANGED <<files, chunks>>
  /\ UNCHANGED <<op, history, environment>>

\* add ingesting the first markdown file only.
add_loop_first_only(self) ==
  /\ pc[self] = "add_loop"
  /\ IF loc[self].md = <<>> \/ loc[self].file # {}
       THEN /\ Finish(self, "ok")
            /\ UNCHANGED loc
       ELSE /\ loc' = [loc EXCEPT ![self].filename = Head(loc[self].md),
                                  ![self].md = Tail(loc[self].md)]
            /\ Goto(self, "aftd_chunks")
  /\ UNCHANGED <<store, op, history, environment>>

\* for await (const filename of md_files) await add_file_to_documentation(...)
add_loop(self) ==
  /\ pc[self] = "add_loop"
  /\ IF loc[self].md = <<>>
       THEN /\ Finish(self, "ok")
            /\ UNCHANGED loc
       ELSE /\ loc' = [loc EXCEPT ![self].filename = Head(loc[self].md),
                                  ![self].md = Tail(loc[self].md)]
            /\ Goto(self, "aftd_chunks")
  /\ UNCHANGED <<store, op, history, environment>>

\* The awaited calls of add that can reject; add catches nothing, so the
\* rejection ends the command where it is.
AddFallible == {"add_clone", "add_create", "aftd_chunks", "aftd_file",
                "aftd_embed", "aftd_chunk"}

\* add catching the rejection of embed and going on with the next chunk.
add_throws_embed_skipped(self) ==
  /\ op[self].kind = "add"
  /\ pc[self] \in AddFallible
  /\ nfail < MaxFailures
  /\ nfail' = nfail + 1
  /\ IF pc[self] = "aftd_embed"
       THEN /\ pc' = [pc EXCEPT ![self] =
                       AftdLoop(self, loc[self].index + 1, loc[self].chunks)]
            /\ result' = [result EXCEPT ![self] = [status |-> "error", at |-> pc[self]]]
            /\ loc' = [loc EXCEPT ![self].index = loc[self].index + 1]
       ELSE Finish(self, "error") /\ UNCHANGED loc
  /\ UNCHANGED <<store, op, pre, prev, nops, environment>>

add_throws(self) ==
  /\ op[self].kind = "add"
  /\ pc[self] \in AddFallible
  /\ nfail < MaxFailures
  /\ nfail' = nfail + 1
  /\ Finish(self, "error")
  /\ UNCHANGED <<store, op, loc, pre, prev, nops, environment>>

\* ---------------------------------------------- delete_files_and_chunks

\* Where delete_files_and_chunks returns to: update ends after it, remove
\* goes on to delete the documentation row.
DfcReturn(self) == IF op[self].kind = "update" THEN "return" ELSE "rm_doc"

\* for (const file of files)
DfcLoop(self, todel) == IF todel = <<>> THEN DfcReturn(self) ELSE "dfc_chunks"

\* delete_files_and_chunks leaving the chunks of the file in place.
dfc_chunks_kept(self) ==
  /\ pc[self] = "dfc_chunks"
  /\ Goto(self, "dfc_file")
  /\ UNCHANGED <<store, op, loc, history, environment>>

\* delete_files_and_chunks removing chunks without the file_id filter.
dfc_chunks_all(self) ==
  /\ pc[self] = "dfc_chunks"
  /\ chunks' = {}
  /\ Goto(self, "dfc_file")
  /\ UNCHANGED <<documentations, files, op, loc, history, environment>>

\* await db.chunks.remove({ file_id: file.id })
dfc_chunks(self) ==
  /\ pc[self] = "dfc_chunks"
  /\ chunks' = {c \in chunks : c.file_id # Head(loc[self].todel).id}
  /\ Goto(self, "dfc_file")
  /\ UNCHANGED <<documentations, files, op, loc, history, environment>>

\* await db.files.remove({ id: file.id })
dfc_file(self) ==
  /\ pc[self] = "dfc_file"
  /\ files' = {f \in files : f.id # Head(loc[self].todel).id}
  /\ loc' = [loc EXCEPT ![self].todel = Tail(loc[self].todel)]
  /\ GotoOrReturn(self, DfcLoop(self, Tail(loc[self].todel)))
  /\ UNCHANGED <<documentations, chunks, op, history, environment>>

\* --------------------------------------------------------------- update

\* update returning, as remove does, when the documentation is absent.
upd_get_returns(self) ==
  /\ pc[self] = "upd_get"
  /\ IF documentations_get(op[self].name) = {}
       THEN /\ Finish(self, "ok")
            /\ UNCHANGED loc
       ELSE /\ loc' = [loc EXCEPT ![self].documentation =
                         documentations_get(op[self].name)]
            /\ Goto(self, "upd_update")
  /\ UNCHANGED <<store, op, history, environment>>

\* const documentation = await db.documentations.get(name)
\* if (!documentation) throw new Error(`... not found ...`)
upd_get(self) ==
  /\ pc[self] = "upd_get"
  /\ IF documentations_get(op[self].name) = {}
       THEN /\ Finish(self, "NotFound")
            /\ UNCHANGED loc
       ELSE /\ loc' = [loc EXCEPT ![self].documentation =
                         documentations_get(op[self].name)]
            /\ Goto(self, "upd_update")
  /\ UNCHANGED <<store, op, history, environment>>

\* An option given on the command line replaces the stored value.
Merged(stored, given) == IF given = Undefined THEN stored ELSE given

\* await db.documentations.update(name, options)
upd_update(self) ==
  /\ pc[self] = "upd_update"
  /\ documentations' =
       {IF d.name = op[self].name
          THEN [d EXCEPT !.repo_url = Merged(d.repo_url, op[self].repo_url),
                         !.subdir = Merged(d.subdir, op[self].subdir),
                         !.branch = Merged(d.branch, op[self].branch)]
          ELSE d : d \in documentations}
  /\ Goto(self, "upd_clone")
  /\ UNCHANGED <<files, chunks, op, loc, history, environment>>

\* const clone_path = await clone_repo(documentation.repo_url, documentation)
upd_clone(self) ==
  /\ pc[self] = "upd_clone"
  /\ LET documentation == CHOOSE d \in loc[self].documentation : TRUE
     IN \E tree \in Trees :
          loc' = [loc EXCEPT
                    ![self].checkout = {[repo_url |-> documentation.repo_url,
                                         subdir |-> documentation.subdir,
                                         branch |-> documentation.branch]},
                    ![self].clone = tree]
  /\ Goto(self, "upd_find")
  /\ UNCHANGED <<store, op, history, environment>>

\* const files = await db.files.find({ documentation_id: documentation.id })
\* const seen_filenames = new Set<string>()
upd_find(self) ==
  /\ pc[self] = "upd_find"
  /\ LET documentation == CHOOSE d \in loc[self].documentation : TRUE
     IN loc' = [loc EXCEPT ![self].files = files_find(documentation.id),
                           ![self].seen_filenames = {},
                           ![self].md = get_md_files(loc[self].clone)]
  /\ Goto(self, "upd_loop")
  /\ UNCHANGED <<store, op, history, environment>>

\* files.find((f) => f.filename === filename): the rows of table files have
\* the columns id, documentation_id, path and hash.
FindByFilename(rows, filename) == {f \in rows : Prop(f, "filename") = filename}

\* The unseen files computed from the path column of the rows.
Unseen_by_path(rows, seen_filenames) == {f \in rows : f.path \notin seen_filenames}

\* files.filter((f) => !seen_filenames.has(f.filename))
Unseen(rows, seen_filenames) == {f \in rows : Prop(f, "filename") \notin seen_filenames}

\* update reading the files of the documentation again after the loop and
\* taking the unseen files from them.
upd_loop_unseen_reread(self) ==
  /\ pc[self] = "upd_loop"
  /\ IF loc[self].md = <<>>
       THEN LET documentation == CHOOSE d \in loc[self].documentation : TRUE
                 unseen == Unseen(files_find(documentation.id), loc[self].seen_filenames)
            IN /\ loc' = [loc EXCEPT ![self].todel = ById(unseen)]
               /\ GotoOrReturn(self, DfcLoop(self, ById(unseen)))
               /\ UNCHANGED store
       ELSE LET filename == Head(loc[self].md)
                found == FindByFilename(loc[self].files, filename)
                hash == hash_file(ContentAt(loc[self].clone, filename))
                skip == found # {} /\ \A f \in found : f.hash = hash
            IN /\ loc' = [loc EXCEPT
                            ![self].seen_filenames = loc[self].seen_filenames \cup {filename},
                            ![self].filename = filename,
                            ![self].md = Tail(loc[self].md)]
               /\ IF skip
                    THEN \* if (file.hash === hash) continue
                         /\ Goto(self, "upd_loop")
                         /\ UNCHANGED store
                    ELSE \* if (file) { db.chunks.remove; db.files.remove }
                         /\ chunks' = {c \in chunks : \A f \in found : c.file_id # f.id}
                         /\ files' = {f \in files : \A g \in found : f.id # g.id}
                         /\ UNCHANGED documentations
                         /\ Goto(self, "aftd_chunks")
  /\ UNCHANGED <<op, history, environment>>

\* One turn of `for await (const filename of get_md_files(clone_path))`, up
\* to the call of add_file_to_documentation; after the last file,
\* unseen_files is computed and handed to delete_files_and_chunks.
upd_loop(self) ==
  /\ pc[self] = "upd_loop"
  /\ IF loc[self].md = <<>>
       THEN /\ loc' = [loc EXCEPT ![self].todel =
                         ById(Unseen(loc[self].files, loc[self].seen_filenames))]
            /\ GotoOrReturn(self,
                 DfcLoop(self, ById(Unseen(loc[self].files, loc[self].seen_filenames))))
            /\ UNCHANGED store
       ELSE LET filename == Head(loc[self].md)
                found == FindByFilename(loc[self].files, filename)
                hash == hash_file(ContentAt(loc[self].clone, filename))
                skip == found # {} /\ \A f \in found : f.hash = hash
            IN /\ loc' = [loc EXCEPT
                            ![self].seen_filenames = loc[self].seen_filenames \cup {filename},
                            ![self].filename = filename,
                            ![self].md = Tail(loc[self].md)]
               /\ IF skip
                    THEN \* if (file.hash === hash) continue
                         /\ Goto(self, "upd_loop")
                         /\ UNCHANGED store
                    ELSE \* if (file) { db.chunks.remove; db.files.remove }
                         /\ chunks' = {c \in chunks : \A f \in found : c.file_id # f.id}
                         /\ files' = {f \in files : \A g \in found : f.id # g.id}
                         /\ UNCHANGED documentations
                         /\ Goto(self, "aftd_chunks")
  /\ UNCHANGED <<op, history, environment>>

\* The awaited calls of update that can reject; update catches nothing.
UpdateFallible == {"upd_update", "upd_clone", "aftd_chunks", "aftd_file",
                   "aftd_embed", "aftd_chunk", "dfc_chunks", "dfc_file"}

\* update catching the rejection of add_file_to_documentation and going on
\* with the next file.
update_throws_continue(self) ==
  /\ op[self].kind = "update"
  /\ pc[self] \in UpdateFallible
  /\ nfail < MaxFailures
  /\ nfail' = nfail + 1
  /\ IF pc[self] \in {"aftd_chunks", "aftd_file", "aftd_embed", "aftd_chunk"}
       THEN /\ pc' = [pc EXCEPT ![self] = "upd_loop"]
            /\ result' = [result EXCEPT ![self] = [status |-> "error", at |-> pc[self]]]
       ELSE Finish(self, "error")
  /\ UNCHANGED <<store, op, loc, pre, prev, nops, environment>>

update_throws(self) ==
  /\ op[self].kind = "update"
  /\ pc[self] \in UpdateFallible
  /\ nfail < MaxFailures
  /\ nfail' = nfail + 1
  /\ Finish(self, "error")
  /\ UNCHANGED <<store, op, loc, pre, prev, nops, environment>>

\* --------------------------------------------------------------- remove

\* remove rejecting, as update does, when the documentation is absent.
rm_get_throws(self) ==
  /\ pc[self] = "rm_get"
  /\ IF documentations_get(op[self].name) = {}
       THEN /\ Finish(self, "NotFound")
            /\ UNCHANGED loc
       ELSE /\ loc' = [loc EXCEPT ![self].documentation =
                         documentations_get(op[self].name)]
            /\ Goto(self, "rm_find")
  /\ UNCHANGED <<store, op, history, environment>>

\* const documentation = await db.documentations.get(name)
\* if (!documentation) return
rm_get(self) ==
  /\ pc[self] = "rm_get"
  /\ IF documentations_get(op[self].name) = {}
       THEN /\ Finish(self, "ok")
            /\ UNCHANGED loc
       ELSE /\ loc' = [loc EXCEPT ![self].documentation =
                         documentations_get(op[self].name)]
            /\ Goto(self, "rm_find")
  /\ UNCHANGED <<store, op, history, environment>>

\* remove deleting the documentation row without deleting its files.
rm_find_skipped(self) ==
  /\ pc[self] = "rm_find"
  /\ Goto(self, "rm_doc")
  /\ UNCHANGED <<store, op, loc, history, environment>>

\* const files = await db.files.find({ documentation_id: documentation.id })
\* await delete_files_and_chunks(files)
rm_find(self) ==
  /\ pc[self] = "rm_find"
  /\ LET documentation == CHOOSE d \in loc[self].documentation : TRUE
         found == files_find(documentation.id)
     IN /\ loc' = [loc EXCEPT ![self].files = found, ![self].todel = ById(found)]
        /\ Goto(self, DfcLoop(self, ById(found)))
  /\ UNCHANGED <<store, op, history, environment>>

\* await db.documentations.remove(name)
rm_doc(self) ==
  /\ pc[self] = "rm_doc"
  /\ documentations' = {d \in documentations : d.name # op[self].name}
  /\ Finish(self, "ok")
  /\ UNCHANGED <<files, chunks, op, loc, history, environment>>

\* The awaited calls of remove that can reject; remove catches nothing.
RemoveFallible == {"dfc_chunks", "dfc_file", "rm_doc"}

remove_throws(self) ==
  /\ op[self].kind = "remove"
  /\ pc[self] \in RemoveFallible
  /\ nfail < MaxFailures
  /\ nfail' = nfail + 1
  /\ Finish(self, "error")
  /\ UNCHANGED <<store, op, loc, pre, prev, nops, environment>>

\* ------------------------------------------------------------ behaviours

Next ==
  \E self \in Procs :
    \/ StartAdd(self)
    \/ StartUpdate(self)
    \/ StartRemove(self)
    \/ add_has(self)
    \/ add_clone(self)
    \/ add_create(self)
    \/ add_loop(self)
    \/ add_throws(self)
    \/ aftd_chunks(self)
    \/ aftd_file(self)
    \/ aftd_embed(self)
    \/ aftd_chunk(self)
    \/ upd_get(self)
    \/ upd_update(self)
    \/ upd_clone(self)
    \/ upd_find(self)
    \/ upd_loop(self)
    \/ update_throws(self)
    \/ dfc_chunks(self)
    \/ dfc_file(self)
    \/ rm_get(self)
    \/ rm_find(self)
    \/ rm_doc(self)
    \/ remove_throws(self)

Spec == Init /\ [][Next]_vars

\* The runs of add and update in which update is given new values for the
\* repository, the subdirectory and the branch; no statement fails.
NextOpt ==
  \E self \in Procs :
    \/ StartAdd(self)
    \/ StartUpdateMoving(self)
    \/ add_has(self)
    \/ add_clone(self)
    \/ add_create(self)
    \/ add_loop(self)
    \/ aftd_chunks(self)
    \/ aftd_file(self)
    \/ aftd_embed(self)
    \/ aftd_chunk(self)
    \/ upd_get(self)
    \/ upd_update(self)
    \/ upd_clone(self)
    \/ upd_find(self)
    \/ upd_loop(self)
    \/ dfc_chunks(self)
    \/ dfc_file(self)

SpecOpt == Init /\ [][NextOpt]_vars

\* The runs of add and update in which update is given new values and an
\* awaited call of update can reject.
NextMove ==
  \E self \in Procs :
    \/ StartAdd(self)
    \/ StartUpdateMoving(self)
    \/ add_has(self)
    \/ add_clone(self)
    \/ add_create(self)
    \/ add_loop(self)
    \/ aftd_chunks(self)
    \/ aftd_file(self)
    \/ aftd_embed(self)
    \/ aftd_chunk(self)
    \/ upd_get(self)
    \/ upd_update(self)
    \/ upd_clone(self)
    \/ upd_find(self)
    \/ upd_loop(self)
    \/ update_throws(self)
    \/ dfc_chunks(self)
    \/ dfc_file(self)

SpecMove == Init /\ [][NextMove]_vars

\* ---------------------------------------------------- claim vocabulary

Idle(p) == pc[p] = "idle"

AftdPcs == {"aftd_chunks", "aftd_file", "aftd_embed", "aftd_chunk"}
DfcPcs == {"dfc_chunks", "dfc_file"}

\* The rows of a store that belong to a documentation or to files.
FilesOf(S, documentation_id) == {f \in S.files : f.documentation_id = documentation_id}
ChunksOf(S, rows) == {c \in S.chunks : \E f \in rows : c.file_id = f.id}

\* The documentation row a command works on.
DocIds(p) == {d.id : d \in loc[p].documentation}

\* The hash of the file found at a path of the checked-out tree.
DiskHash(p, path) == hash_file(ContentAt(loc[p].clone, path))
OnDisk(p, path) == path \in TreePaths(loc[p].clone)

\* A file row together with every chunk the chunker produces for its content.
Complete(f) ==
  LET content == CHOOSE c \in Contents : hash_file(c) = f.hash
      drafts == get_file_chunks(content)
      rows == {c \in chunks : c.file_id = f.id}
  IN /\ Cardinality(rows) = Len(drafts)
     /\ \A i \in 1..Len(drafts) :
          \E c \in rows : /\ c.index = i - 1
                          /\ c.metadata = drafts[i].metadata
                          /\ c.content = drafts[i].content

\* A process is between the first and the last write of a file's rows.
Writing(p, f) ==
  \/ pc[p] \in {"aftd_embed", "aftd_chunk"} /\ f \in loc[p].file
  \/ pc[p] \in DfcPcs /\ Head(loc[p].todel) = f

\* An update has read its snapshot of the documentation's files.
Reconciling(p) ==
  /\ op[p].kind = "update"
  /\ \/ pc[p] \in {"upd_loop"} \cup AftdPcs \cup DfcPcs
     \/ Idle(p) /\ result[p].at \in {"upd_loop"} \cup AftdPcs \cup DfcPcs

UpdateReturned(p) == op[p].kind = "update" /\ Idle(p) /\ result[p].status = "ok"

\* An update was abandoned inside add_file_to_documentation.
UpdateFileFailed(p) ==
  op[p].kind = "update" /\ result[p].status = "error" /\ result[p].at \in AftdPcs

\* The elements of a sequence.
Range(seq) == {seq[i] : i \in 1..Len(seq)}

\* ------------------------------------------------------------------ C1
\* C1: file ingestion is atomic. Outside the writes of a file's own rows, a
\* File row is in the store only together with the complete set of Chunk
\* rows the chunker produces for it, also after add_file_to_documentation
\* was abandoned by a failing embed or store write.
C1_FileIngestAtomic ==
  \A f \in files : Complete(f) \/ \E p \in Procs : Writing(p, f)

\* ------------------------------------------------------------------ C2
\* C2: an Add abandoned while ingesting a file is rolled back: the store has
\* no Documentation row of that name and no File or Chunk row belonging to it.
C2_FailedAddRolledBack ==
  \A p \in Procs :
    (op[p].kind = "add" /\ Idle(p) /\ result[p].status = "error"
       /\ result[p].at \in AftdPcs)
    => /\ ~documentations_has(op[p].name)
       /\ \A id \in DocIds(p) :
            FilesOf(Store, id) = {} /\ ChunksOf(Store, FilesOf(pre[p], id)) = {}

\* ------------------------------------------------------------------ C3
\* C3: during Update, a file on disk whose path has a File row with the same
\* hash is skipped: its rows stay as they were when the Update started and
\* add_file_to_documentation is not called for it.  Stated for behaviours in
\* which no call has rejected, so that no row was left by an abandoned command.
C3_UnchangedFileSkipped ==
  \A p \in Procs :
    (Reconciling(p) /\ nfail = 0) =>
      \A f \in loc[p].files :
        (OnDisk(p, f.path) /\ f.hash = DiskHash(p, f.path))
        => /\ ~(pc[p] \in AftdPcs /\ loc[p].filename = f.path)
           /\ f \in files
           /\ ChunksOf(Store, {f}) = ChunksOf(pre[p], {f})

\* ------------------------------------------------------------------ C4
\* C4: idempotent re-sync. When an Update returns after an Update of the same
\* documentation that returned with the same tree, the documentation's File
\* rows and Chunk rows are the rows the second Update started with.  Stated
\* for behaviours in which no call has rejected.
C4_IdempotentResync ==
  \A p \in Procs :
    (UpdateReturned(p) /\ nfail = 0 /\ prev[p].kind = "update" /\ prev[p].name = op[p].name
       /\ prev[p].tree = loc[p].clone)
    => \A id \in DocIds(p) :
         /\ FilesOf(Store, id) = FilesOf(pre[p], id)
         /\ ChunksOf(Store, FilesOf(Store, id)) = ChunksOf(pre[p], FilesOf(pre[p], id))

\* ------------------------------------------------------------------ C5
\* The tracked files are the files on disk and exactly one has another hash.
ExactlyOneChanged(p) ==
  /\ TreePaths(loc[p].clone) = {f.path : f \in loc[p].files}
  /\ Cardinality({f \in loc[p].files : f.hash # DiskHash(p, f.path)}) = 1

\* C5: hash-triggered re-chunk. When exactly one tracked file changed, the
\* Update replaces the rows of that file and leaves the rows of every other
\* file as they were.  Stated for behaviours in which no call has rejected.
C5_OnlyChangedFileRechunked ==
  \A p \in Procs :
    (UpdateReturned(p) /\ nfail = 0 /\ ExactlyOneChanged(p))
    => \A f \in loc[p].files :
         IF f.hash = DiskHash(p, f.path)
           THEN f \in files /\ ChunksOf(Store, {f}) = ChunksOf(pre[p], {f})
           ELSE /\ f \notin files
                /\ \E g \in files : /\ g.documentation_id = f.documentation_id
                                    /\ g.path = f.path
                                    /\ g.hash = DiskHash(p, f.path)

\* ------------------------------------------------------------------ C6
\* C6: upstream deletion. When an Update returns and the tree lost file b
\* and kept file a unchanged, no File row of b and no Chunk row of b is left
\* and the rows of a are the rows the Update started with.  Stated for
\* behaviours in which no call has rejected.
C6_UpstreamDeletion ==
  \A p \in Procs :
    (UpdateReturned(p) /\ nfail = 0) =>
      \A a, b \in loc[p].files :
        (~OnDisk(p, b.path) /\ OnDisk(p, a.path) /\ a.hash = DiskHash(p, a.path))
        => /\ b \notin files
           /\ ChunksOf(Store, {b}) = {}
           /\ a \in files
           /\ ChunksOf(Store, {a}) = ChunksOf(pre[p], {a})

\* ------------------------------------------------------------------ C7
\* C7: during Update, a changed file whose re-ingestion fails is left
\* untouched: its previous File row and Chunk rows are still there and the
\* store has no new row for it.
C7_FailedFileUntouched ==
  \A p \in Procs :
    (UpdateFileFailed(p) /\ Idle(p)
       /\ \E f \in loc[p].files :
            f.path = loc[p].filename /\ f.hash # DiskHash(p, f.path))
    => \A id \in DocIds(p) :
         LET now == {f \in FilesOf(Store, id) : f.path = loc[p].filename}
             before == {f \in FilesOf(pre[p], id) : f.path = loc[p].filename}
         IN now = before /\ ChunksOf(Store, now) = ChunksOf(pre[p], before)

\* ------------------------------------------------------------------ C8
\* C8 as stated: after a failure while reconciling one file, every file on
\* disk has still been reconciled and the files not seen on disk have been
\* deleted.
C8_OthersStillReconciled ==
  \A p \in Procs :
    (UpdateFileFailed(p) /\ Idle(p))
    => /\ loc[p].md = <<>>
       /\ loc[p].seen_filenames = TreePaths(loc[p].clone)
       /\ \A f \in loc[p].files : ~OnDisk(p, f.path) => f \notin files

\* C8 amended: a failure while reconciling one file ends the Update there,
\* reporting the failure: the files after it in the enumeration are not
\* looked at, their rows are the rows the Update started with, and the
\* delete-unseen pass has not run (the File rows of the snapshot whose paths
\* were not seen are still there, with their Chunk rows).
C8_FailureAbortsUpdate ==
  \A p \in Procs :
    UpdateFileFailed(p)
    => /\ Idle(p)
       /\ loc[p].filename \notin Range(loc[p].md)
       /\ loc[p].seen_filenames = TreePaths(loc[p].clone) \ Range(loc[p].md)
       /\ \A id \in DocIds(p) :
            /\ \A path \in Range(loc[p].md) :
                 LET now == {f \in FilesOf(Store, id) : f.path = path}
                     before == {f \in FilesOf(pre[p], id) : f.path = path}
                 IN now = before /\ ChunksOf(Store, now) = ChunksOf(pre[p], before)
            /\ \A f \in loc[p].files :
                 f.path \notin loc[p].seen_filenames
                 => f \in files /\ ChunksOf(Store, {f}) = ChunksOf(pre[p], {f})

\* An Update of a documentation with tracked files was abandoned at the
\* first of two files on disk, after the File row of that file was written.
C8_Witness ==
  \E p \in Procs :
    /\ UpdateFileFailed(p)
    /\ Idle(p)
    /\ loc[p].md # <<>>
    /\ loc[p].files # {}
    /\ loc[p].file # {}

\* ------------------------------------------------------------------ C9
\* C9: Add of a name that already exists fails with the already-exists
\* error, checks nothing out and leaves every row of the store as it was.
C9_AddExistingRejected ==
  \A p \in Procs :
    (op[p].kind = "add" /\ pc[p] # "add_has"
       /\ \E d \in pre[p].documentations : d.name = op[p].name)
    => /\ Idle(p)
       /\ result[p].status = "AlreadyExists"
       /\ loc[p].checkout = {}
       /\ Store = pre[p]

\* An Add was refused on a store that holds files and chunks.
C9_Witness ==
  \E p \in Procs :
    /\ op[p].kind = "add" /\ Idle(p) /\ result[p].status = "AlreadyExists"
    /\ files # {} /\ chunks # {}

\* ----------------------------------------------------------------- C10
\* C10: Update of a name that does not exist fails with the not-found
\* error, checks nothing out and leaves every row of the store as it was.
C10_UpdateAbsentRejected ==
  \A p \in Procs :
    (op[p].kind = "update" /\ pc[p] # "upd_get"
       /\ ~\E d \in pre[p].documentations : d.name = op[p].name)
    => /\ Idle(p)
       /\ result[p].status = "NotFound"
       /\ loc[p].checkout = {}
       /\ Store = pre[p]

\* An Update was refused on a store that holds another documentation.
C10_Witness ==
  \E p \in Procs :
    /\ op[p].kind = "update" /\ Idle(p) /\ result[p].status = "NotFound"
    /\ documentations # {} /\ files # {}

\* Two processes run add and remove at the same time on the same database:
\* each awaited statement is one step and the steps of the two interleave.
\* update is left out: it inserts and deletes no Documentation row.
NextConc ==
  \E self \in AllProcs :
    \/ StartAdd(self)
    \/ StartRemove(self)
    \/ add_has(self)
    \/ add_clone(self)
    \/ add_create(self)
    \/ add_loop(self)
    \/ aftd_chunks(self)
    \/ aftd_file(self)
    \/ aftd_embed(self)
    \/ aftd_chunk(self)
    \/ dfc_chunks(self)
    \/ dfc_file(self)
    \/ rm_get(self)
    \/ rm_find(self)
    \/ rm_doc(self)

SpecConc == InitConc /\ [][NextConc]_vars

\* ------------------------------------------------------ config.get, set
\* The calls of the config module that are in flight in one process.
Tasks == {"t1", "t2"}

\* The local variables of main, init, the db functions and config.get.
MainLoc ==
  [after |-> {},           \* history: what config.set had written when called
   config |-> {},          \* what config.get returned to its caller
   database_path |-> {},   \* const { database_path } = await config.get()
   exists |-> {},          \* await db.exists()
   prompt |-> {},          \* prompt = prompt || (await Bun.stdin.text())
   ret |-> "return",       \* where config.get returns to
   text |-> {}]            \* await Bun.file(config_path).text()

NoCall == [kind |-> "none", value |-> {}]

database == <<store, pre, prev, nfail>>

\* The configurations written by the calls of config.set that have completed.
CompletedSets ==
  UNION {Config_parse(v) : v \in UNION {op[t].value : t \in
           {u \in DOMAIN pc : /\ op[u].kind = "set"
                              /\ pc[u] = "idle"
                              /\ result[u].status = "ok"}}}

\* A call of the config module from some other module of the process.
Call(self, call, first) ==
  /\ pc[self] = "idle"
  /\ nops < MaxOps
  /\ nops' = nops + 1
  /\ op' = [op EXCEPT ![self] = call]
  /\ loc' = [loc EXCEPT ![self] = [MainLoc EXCEPT !.after = CompletedSets]]
  /\ pc' = [pc EXCEPT ![self] = first]
  /\ result' = [result EXCEPT ![self] = NoResult]
  /\ UNCHANGED <<database, environment>>

\* config.get()
StartGet(self) == Call(self, [kind |-> "get", value |-> {}], "cfg_get")

\* config.set(value)
StartSet(self) ==
  \E value \in SetValues : Call(self, [kind |-> "set", value |-> {value}], "set_write")

\* config.get returns value: to the caller in db, or to the task that called.
CfgReturn(self, value) ==
  /\ observed' = [observed EXCEPT !.returned = observed.returned \cup value]
  /\ loc' = [loc EXCEPT ![self].config = value]
  /\ IF loc[self].ret = "return"
       THEN /\ pc' = [pc EXCEPT ![self] = "idle"]
            /\ result' = [result EXCEPT ![self] = [status |-> "ok", at |-> pc[self]]]
       ELSE /\ pc' = [pc EXCEPT ![self] = loc[self].ret]
            /\ UNCHANGED result

\* A function of the config module throws: the task that called it gets the
\* error; in main the rejection reaches the catch of main.
CfgThrow(self) ==
  /\ result' = [result EXCEPT ![self] = [status |-> "error", at |-> pc[self]]]
  /\ pc' = [pc EXCEPT ![self] = IF loc[self].ret = "return" THEN "idle" ELSE "main_catch"]

\* if (config === undefined) { ... } return config
cfg_get(self) ==
  /\ pc[self] = "cfg_get"
  /\ IF config = {}
       THEN /\ Goto(self, "cfg_exists")
            /\ UNCHANGED <<loc, observed>>
       ELSE CfgReturn(self, config)
  /\ UNCHANGED <<database, op, nops, config, disk, io>>

\* config.get writing the defaults without testing that the file exists.
cfg_exists_untested(self) ==
  /\ pc[self] = "cfg_exists"
  /\ Goto(self, "cfg_set")
  /\ UNCHANGED <<database, op, loc, nops, environment>>

\* if (!(await exists()))
cfg_exists(self) ==
  /\ pc[self] = "cfg_exists"
  /\ Goto(self, IF disk.config_file = {} THEN "cfg_set" ELSE "cfg_read")
  /\ UNCHANGED <<database, op, loc, nops, environment>>

\* await set(defaults)
cfg_set(self) ==
  /\ pc[self] = "cfg_set"
  /\ LET text == {yaml_stringify(c) : c \in Config_parse(defaults)}
     IN /\ disk' = [disk EXCEPT !.config_file = text]
        /\ observed' = [observed EXCEPT !.written = observed.written \cup text]
  /\ Goto(self, "cfg_assign")
  /\ UNCHANGED <<database, op, loc, nops, config, io>>

\* config = defaults; return config
cfg_assign(self) ==
  /\ pc[self] = "cfg_assign"
  /\ config' = {defaults}
  /\ CfgReturn(self, {defaults})
  /\ UNCHANGED <<database, op, nops, disk, io>>

\* await Bun.file(config_path).text()
cfg_read(self) ==
  /\ pc[self] = "cfg_read"
  /\ loc' = [loc EXCEPT ![self].text = disk.config_file]
  /\ observed' = [observed EXCEPT !.reads = observed.reads + 1]
  /\ Goto(self, "cfg_parse")
  /\ UNCHANGED <<database, op, nops, config, disk, io>>

\* config.get keeping whatever yaml.parse returns, without Config.parse.
cfg_parse_unvalidated(self) ==
  /\ pc[self] = "cfg_parse"
  /\ LET parsed == {yaml_parse(text) : text \in loc[self].text}
     IN /\ config' = parsed
        /\ CfgReturn(self, parsed)
  /\ UNCHANGED <<database, op, nops, disk, io>>

\* config = Config.parse(yaml.parse(text)); return config
cfg_parse(self) ==
  /\ pc[self] = "cfg_parse"
  /\ LET parsed == UNION {Config_parse(yaml_parse(text)) : text \in loc[self].text}
     IN IF parsed = {}
          THEN /\ CfgThrow(self)
               /\ UNCHANGED <<config, loc, observed>>
          ELSE /\ config' = parsed
               /\ CfgReturn(self, parsed)
  /\ UNCHANGED <<database, op, nops, disk, io>>

\* await Bun.write(config_path, yaml.stringify(Config.parse(config)))
set_write(self) ==
  /\ pc[self] = "set_write"
  /\ LET text == {yaml_stringify(c) : c \in UNION {Config_parse(v) : v \in op[self].value}}
     IN IF text = {}
          THEN /\ CfgThrow(self)
               /\ UNCHANGED <<disk, observed>>
          ELSE /\ disk' = [disk EXCEPT !.config_file = text]
               /\ observed' = [observed EXCEPT !.written = observed.written \cup text]
               /\ Finish(self, "ok")
  /\ UNCHANGED <<database, op, loc, nops, config, io>>

\* One process whose modules call config.get and config.set, the calls
\* overlapping at their awaits, on any config file.
InitConfig ==
  /\ documentations = {}
  /\ files = {}
  /\ chunks = {}
  /\ pc = [t \in Tasks |-> "idle"]
  /\ op = [t \in Tasks |-> NoCall]
  /\ loc = [t \in Tasks |-> MainLoc]
  /\ result = [t \in Tasks |-> NoResult]
  /\ pre = [t \in Tasks |-> [chunks |-> {}, documentations |-> {}, files |-> {}]]
  /\ prev = [t \in Tasks |-> NoPrev]
  /\ nops = 0
  /\ nfail = 0
  /\ config = {}
  /\ \E file \in ConfigFiles :
       disk = [config_file |-> file, databases |-> {}, tables |-> {}]
  /\ io = NoIo
  /\ observed = NoObserved

NextConfig ==
  \E self \in Tasks :
    \/ StartGet(self)
    \/ StartSet(self)
    \/ cfg_get(self)
    \/ cfg_exists(self)
    \/ cfg_set(self)
    \/ cfg_assign(self)
    \/ cfg_read(self)
    \/ cfg_parse(self)
    \/ set_write(self)

SpecConfig == InitConfig /\ [][NextConfig]_vars

\* ------------------------------------------------------------ retrieval

\* The embedding of a prompt.
query_vector(prompt) ==
  IF prompt = "how to add a file" THEN 230
  ELSE IF prompt = "which files are tracked" THEN 224
  ELSE 0

\* The distance between two embeddings.
distance(a, b) == IF a >= b THEN a - b ELSE b - a

\* The k chunks nearest to a query embedding, nearest first, ties by id.
RECURSIVE Nearest(_, _, _)
Nearest(rows, query, k) ==
  IF k = 0 \/ rows = {} THEN <<>>
  ELSE LET best == CHOOSE c \in rows :
                     \A d \in rows :
                       \/ distance(query, c.embedding) < distance(query, d.embedding)
                       \/ /\ distance(query, c.embedding) = distance(query, d.embedding)
                          /\ c.id <= d.id
       IN <<best>> \o Nearest(rows \ {best}, query, k - 1)

\* ------------------------------------------------- main, init, rag get

\* The database files a process can find on disk.
DatabaseFiles == SUBSET {defaults.database_path.value, "/data/rag.sqlite"}

\* The path a config file leads config.get to, if it leads to one.
ConfiguredPath(file) ==
  IF file = {} THEN {defaults.database_path.value}
  ELSE {c.database_path.value : c \in UNION {Config_parse(yaml_parse(text)) : text \in file}}

\* The rows of the chunks of a file as add_file_to_documentation writes
\* them, the first with the given id.
ChunkRows(file_id, first_id, content) ==
  LET drafts == get_file_chunks(content)
  IN {[id |-> first_id + i - 1,
       file_id |-> file_id,
       index |-> i - 1,
       metadata |-> drafts[i].metadata,
       content |-> drafts[i].content,
       embedding |-> embed(embed_text(drafts[i].metadata, drafts[i].content))]
      : i \in 1..Len(drafts)}

\* The database after rag docs add demo (a.md of two chunks, b.md of one)
\* and rag docs add lib (a.md of two chunks): a corpus of five chunks.
Corpus ==
  [documentations |->
     {[id |-> 1, name |-> "demo", repo_url |-> "r1", subdir |-> ".", branch |-> "main"],
      [id |-> 2, name |-> "lib", repo_url |-> "r1", subdir |-> ".", branch |-> "main"]},
   files |->
     {[id |-> 1, documentation_id |-> 1, path |-> "a.md", hash |-> hash_file(<<"x", "y">>)],
      [id |-> 2, documentation_id |-> 1, path |-> "b.md", hash |-> hash_file(<<"x">>)],
      [id |-> 3, documentation_id |-> 2, path |-> "a.md", hash |-> hash_file(<<"x", "y">>)]},
   chunks |-> ChunkRows(1, 1, <<"x", "y">>) \cup ChunkRows(2, 3, <<"x">>)
              \cup ChunkRows(3, 4, <<"x", "y">>)]

EmptyStore == [chunks |-> {}, documentations |-> {}, files |-> {}]

\* The command lines of rag: the docs commands and get, with the prompt
\* argument absent, empty or given, and --count.
Prompts == {{}, {""}, {"how to add a file"}}
Counts == {1, 3}
CommandLines ==
  {[kind |-> k, prompt |-> {}, count |-> 3] : k \in {"add", "update", "remove"}}
  \cup {[kind |-> "get", prompt |-> prompt, count |-> count] :
          prompt \in Prompts, count \in Counts}

\* What is piped into the process.
Stdins == {"", "which files are tracked"}

\* The process starts: module state empty, any config file, any database
\* files, any command line.
InitMain ==
  \E file \in ConfigFiles, dbs \in DatabaseFiles, args \in CommandLines,
     stdin \in Stdins, S \in {EmptyStore, Corpus} :
    /\ S = Corpus => ConfiguredPath(file) # {} /\ ConfiguredPath(file) \subseteq dbs
    /\ documentations = S.documentations
    /\ files = S.files
    /\ chunks = S.chunks
    /\ pc = [p \in Procs |-> "main"]
    /\ op = [p \in Procs |-> args]
    /\ loc = [p \in Procs |-> MainLoc]
    /\ result = [p \in Procs |-> NoResult]
    /\ pre = [p \in Procs |-> S]
    /\ prev = [p \in Procs |-> NoPrev]
    /\ nops = 0
    /\ nfail = 0
    /\ config = {}
    /\ disk = [config_file |-> file, databases |-> dbs, tables |-> dbs]
    /\ io = [NoIo EXCEPT !.stdin = stdin]
    /\ observed = [NoObserved EXCEPT !.found = dbs]

\* init(): if (!(await db.exists())); db.exists: await config.get()
main_init(self) ==
  /\ pc[self] = "main"
  /\ loc' = [loc EXCEPT ![self].ret = "db_exists_file"]
  /\ Goto(self, "cfg_get")
  /\ UNCHANGED <<database, op, nops, environment>>

\* db.exists: return Bun.file(database_path).exists()
db_exists_file(self) ==
  /\ pc[self] = "db_exists_file"
  /\ LET database_path == {c.database_path.value : c \in loc[self].config}
     IN loc' = [loc EXCEPT ![self].database_path = database_path,
                           ![self].exists = {database_path \subseteq disk.databases}]
  /\ Goto(self, "init_if")
  /\ UNCHANGED <<database, op, nops, environment>>

\* init going on to the command without creating the database.
init_if_never_creates(self) ==
  /\ pc[self] = "init_if"
  /\ Goto(self, "main_parse")
  /\ UNCHANGED <<database, op, loc, nops, environment>>

\* if (!(await db.exists())) await db.create(); db.create: await config.get()
init_if(self) ==
  /\ pc[self] = "init_if"
  /\ IF loc[self].exists = {TRUE}
       THEN /\ Goto(self, "main_parse")
            /\ UNCHANGED loc
       ELSE /\ loc' = [loc EXCEPT ![self].ret = "db_create_open"]
            /\ Goto(self, "cfg_get")
  /\ UNCHANGED <<database, op, nops, environment>>

\* db.create: await mkdir(...); const db = new Database(database_path):
\* the database file is created, with no table in it yet.
db_create_open(self) ==
  /\ pc[self] = "db_create_open"
  /\ LET database_path == {c.database_path.value : c \in loc[self].config}
     IN /\ disk' = [disk EXCEPT !.databases = disk.databases \cup database_path]
        /\ observed' = [observed EXCEPT !.created = observed.created \cup database_path]
  /\ Goto(self, "db_create_schema")
  /\ UNCHANGED <<database, op, loc, nops, config, io>>

\* db.create: db.transaction(() => { db.prepare(db_schema).run() })(): the
\* tables documentations, files and chunks are created in one transaction.
db_create_schema(self) ==
  /\ pc[self] = "db_create_schema"
  /\ LET database_path == {c.database_path.value : c \in loc[self].config}
     IN disk' = [disk EXCEPT !.tables = disk.tables \cup database_path]
  /\ Goto(self, "main_parse")
  /\ UNCHANGED <<database, op, loc, nops, config, io, observed>>

\* db.create rejects: mkdir or opening the database file fails, or the
\* transaction of the schema throws and is rolled back; the database file
\* that new Database created stays on disk.
db_create_throws(self) ==
  /\ pc[self] \in {"db_create_open", "db_create_schema"}
  /\ pc' = [pc EXCEPT ![self] = "main_catch"]
  /\ result' = [result EXCEPT ![self] = [status |-> "error", at |-> pc[self]]]
  /\ UNCHANGED <<database, op, loc, nops, environment>>

\* .then(() => program.parseAsync()): the action of the command runs; the
\* actions of the docs commands print one line.
main_parse(self) ==
  /\ pc[self] = "main_parse"
  /\ observed' = [observed EXCEPT !.actions = observed.actions + 1]
  /\ IF op[self].kind = "get"
       THEN /\ Goto(self, "get_prompt")
            /\ UNCHANGED io
       ELSE /\ io' = [io EXCEPT !.stdout = Append(io.stdout,
                                   [what |-> "log", text |-> op[self].kind, chunk |-> 0]),
                                 !.exit = {0}]
            /\ Finish(self, "ok")
  /\ UNCHANGED <<database, op, loc, nops, config, disk>>

\* prompt = prompt || (await Bun.stdin.text())
get_prompt(self) ==
  /\ pc[self] = "get_prompt"
  /\ IF op[self].prompt # {} /\ op[self].prompt # {""}
       THEN /\ loc' = [loc EXCEPT ![self].prompt = op[self].prompt]
            /\ UNCHANGED io
       ELSE /\ loc' = [loc EXCEPT ![self].prompt = {io.stdin}]
            /\ io' = [io EXCEPT !.stdin_read = TRUE]
  /\ Goto(self, "get_log")
  /\ UNCHANGED <<database, op, nops, config, disk, observed>>

\* console.log(`Getting relevant parts from documentations for prompt ...`)
\* and the action returns: nothing else is printed.
get_log(self) ==
  /\ pc[self] = "get_log"
  /\ io' = [io EXCEPT !.stdout = Append(io.stdout,
                         [what |-> "log",
                          text |-> CHOOSE prompt \in loc[self].prompt : TRUE,
                          chunk |-> 0]),
                      !.exit = {0}]
  /\ Finish(self, "ok")
  /\ UNCHANGED <<database, op, loc, nops, config, disk, observed>>

\* .catch((err) => { console.error(err); process.exit(1) })
main_catch(self) ==
  /\ pc[self] = "main_catch"
  /\ io' = [io EXCEPT !.stderr = Append(io.stderr, result[self].at), !.exit = {1}]
  /\ pc' = [pc EXCEPT ![self] = "idle"]
  /\ UNCHANGED <<database, op, loc, result, nops, config, disk, observed>>

NextMain ==
  \E self \in Procs :
    \/ main_init(self)
    \/ cfg_get(self)
    \/ cfg_exists(self)
    \/ cfg_set(self)
    \/ cfg_assign(self)
    \/ cfg_read(self)
    \/ cfg_parse(self)
    \/ db_exists_file(self)
    \/ init_if(self)
    \/ db_create_open(self)
    \/ db_create_schema(self)
    \/ db_create_throws(self)
    \/ main_parse(self)
    \/ get_prompt(self)
    \/ get_log(self)
    \/ main_catch(self)

SpecMain == InitMain /\ [][NextMain]_vars

\* The process has ended and rag is started again with another command
\* line: the module state is empty again, the disk is as the last process
\* left it.
main_restart(self) ==
  /\ pc[self] = "idle"
  /\ nops < MaxOps
  /\ nops' = nops + 1
  /\ \E args \in CommandLines, stdin \in Stdins :
       /\ op' = [op EXCEPT ![self] = args]
       /\ io' = [NoIo EXCEPT !.stdin = stdin]
  /\ pc' = [pc EXCEPT ![self] = "main"]
  /\ loc' = [loc EXCEPT ![self] = MainLoc]
  /\ result' = [result EXCEPT ![self] = NoResult]
  /\ config' = {}
  /\ observed' = [NoObserved EXCEPT !.found = disk.databases]
  /\ UNCHANGED <<store, pre, prev, nfail, disk>>

\* Any sequence of program starts.
NextStarts ==
  \/ NextMain
  \/ \E self \in Procs : main_restart(self)

SpecStarts == InitMain /\ [][NextStarts]_vars

\* ------------------------------------------------ ingestion of one file
\* The longest markdown document, in structural blocks.
MaxBlocks == 3

\* The structural blocks of the documents: two that fit in a chunk and one
\* atomic unit that alone exceeds the token limit.
DocBlocks == {"x", "y", "z"}

\* The markdown documents of at most MaxBlocks blocks.
Documents == UNION {[1..n -> DocBlocks] : n \in 0..MaxBlocks}

\* add has created the Documentation row of a tree whose one file a.md is
\* any of the documents, and is about to ingest it.
InitChunk ==
  \E document \in Documents :
    LET row == [id |-> 1, name |-> "demo", repo_url |-> "r1",
                subdir |-> ".", branch |-> "main"]
        tree == {[path |-> "a.md", content |-> document]}
    IN /\ documentations = {row}
       /\ files = {}
       /\ chunks = {}
       /\ pc = [p \in Procs |-> "add_loop"]
       /\ op = [p \in Procs |-> [kind |-> "add", name |-> "demo", repo_url |-> "r1",
                                  subdir |-> ".", branch |-> "main"]]
       /\ loc = [p \in Procs |->
                   [InitLoc EXCEPT !.documentation = {row},
                                   !.clone = tree,
                                   !.md = get_md_files(tree)]]
       /\ result = [p \in Procs |-> NoResult]
       /\ pre = [p \in Procs |-> [chunks |-> {}, documentations |-> {}, files |-> {}]]
       /\ prev = [p \in Procs |-> NoPrev]
       /\ nops = 1
       /\ nfail = 0
       /\ Initialized

\* The loop of add over the files and add_file_to_documentation.
NextChunk ==
  \E self \in Procs :
    \/ add_loop(self)
    \/ aftd_chunks(self)
    \/ aftd_file(self)
    \/ aftd_embed(self)
    \/ aftd_chunk(self)

SpecChunk == InitChunk /\ [][NextChunk]_vars

\* ----------------------------------------------------------------- C11
\* C11: the checkout of an Update uses the merged values: each of repo_url,
\* subdir and branch passed to the checkout is the one given in the options
\* when it is given and the stored one otherwise, which is the value the
\* Documentation row has after the merge.
C11_CheckoutUsesMerged ==
  \A p \in Procs :
    (op[p].kind = "update" /\ loc[p].checkout # {})
    => \A c \in loc[p].checkout :
         \A d \in pre[p].documentations :
           d.name = op[p].name
           => /\ c.repo_url = Merged(d.repo_url, op[p].repo_url)
              /\ c.subdir = Merged(d.subdir, op[p].subdir)
              /\ c.branch = Merged(d.branch, op[p].branch)

\* ----------------------------------------------------------------- C12
\* C12: Remove of a name that does not exist is a no-op: it returns without
\* an error and changes no row; so a Remove that follows a Remove of the
\* same name that returned leaves the store as it found it.
C12_RemoveAbsentNoOp ==
  \A p \in Procs :
    (op[p].kind = "remove" /\ pc[p] # "rm_get")
    => /\ (~\E d \in pre[p].documentations : d.name = op[p].name)
          => Idle(p) /\ result[p].status = "ok" /\ Store = pre[p]
       /\ (prev[p].kind = "remove" /\ prev[p].name = op[p].name)
          => Idle(p) /\ result[p].status = "ok" /\ Store = pre[p]

\* A Remove returned right after a Remove of the same name that returned,
\* on a store that holds another documentation.
C12_Witness ==
  \E p \in Procs :
    /\ op[p].kind = "remove" /\ Idle(p) /\ result[p].status = "ok"
    /\ prev[p].kind = "remove" /\ prev[p].name = op[p].name
    /\ documentations # {}

\* ----------------------------------------------------------------- C13
\* C13: cascade deletion. When Remove returns for a documentation that
\* existed, the store has no Documentation row of that name, no File row of
\* that documentation and no Chunk row of any of its files.
C13_CascadeDeletion ==
  \A p \in Procs :
    (op[p].kind = "remove" /\ Idle(p) /\ result[p].status = "ok")
    => /\ ~documentations_has(op[p].name)
       /\ \A d \in pre[p].documentations :
            d.name = op[p].name
            => /\ FilesOf(Store, d.id) = {}
               /\ ChunksOf(Store, FilesOf(pre[p], d.id)) = {}

\* A Remove returned for a documentation that had files with chunks.
C13_Witness ==
  \E p \in Procs :
    /\ op[p].kind = "remove" /\ Idle(p) /\ result[p].status = "ok"
    /\ \E d \in pre[p].documentations :
         /\ d.name = op[p].name
         /\ Cardinality(FilesOf(pre[p], d.id)) > 1
         /\ ChunksOf(pre[p], FilesOf(pre[p], d.id)) # {}

\* ----------------------------------------------------------------- C14
\* C14: Remove is one transaction. When Remove fails at any step the store
\* is the store Remove started with, or that store without the
\* documentation, its files and their chunks.
C14_RemoveAllOrNothing ==
  \A p \in Procs :
    (op[p].kind = "remove" /\ Idle(p) /\ result[p].status = "error")
    => \/ Store = pre[p]
       \/ /\ ~documentations_has(op[p].name)
          /\ \A id \in DocIds(p) :
               FilesOf(Store, id) = {} /\ ChunksOf(Store, FilesOf(pre[p], id)) = {}

\* ----------------------------------------------------------------- C15
\* C15: in every state the index values of the Chunk rows of a file_id are
\* 0..n-1, each once, n being the number of those rows.
C15_ChunkIndexContiguous ==
  \A fid \in {c.file_id : c \in chunks} :
    LET rows == {c \in chunks : c.file_id = fid}
    IN /\ {c.index : c \in rows} = 0..(Cardinality(rows) - 1)
       /\ \A c1, c2 \in rows : c1.index = c2.index => c1 = c2

\* A file has two chunks while another file was left with the first of its
\* two chunks by an abandoned command.
C15_Witness ==
  /\ \E f \in files : Cardinality(ChunksOf(Store, {f})) = 2
  /\ \E f \in files : ~Complete(f) /\ Cardinality(ChunksOf(Store, {f})) = 1
  /\ \A p \in Procs : Idle(p)

\* ----------------------------------------------------------------- C16
\* C16: in every state, the states inside an Update and the state an
\* abandoned Update leaves included, no two File rows have the same
\* documentation_id and path.
C16_FilePathUnique ==
  \A f, g \in files :
    (f.documentation_id = g.documentation_id /\ f.path = g.path) => f = g

\* ----------------------------------------------------------------- C17
\* C17: in every state no two Documentation rows have the same name,
\* whatever commands ran and also when two Adds of the same name interleave
\* between the existence check and the create.
C17_NameUnique ==
  \A d, e \in documentations : d.name = e.name => d = e

\* Two Adds of the same name both passed the existence check; one created
\* the row and the create of the other was refused.
C17_Witness ==
  \E p, q \in AllProcs :
    /\ p # q
    /\ op[p].kind = "add" /\ op[q].kind = "add" /\ op[p].name = op[q].name
    /\ pc[q] = "idle" /\ result[q].status = "error" /\ result[q].at = "add_create"
    /\ \E d \in loc[p].documentation : d \in documentations /\ d.name = op[q].name

\* ----------------------------------------------------------------- C18
\* C18: ownership is a tree in every state, the states left by an abandoned
\* command included: the file_id of every Chunk row is the id of a File row
\* and the documentation_id of every File row is the id of a Documentation
\* row.
C18_OwnershipTree ==
  /\ \A c \in chunks : \E f \in files : f.id = c.file_id
  /\ \A f \in files : \E d \in documentations : d.id = f.documentation_id

\* A Remove was abandoned after the chunks of a file were deleted and before
\* the file was, while other files still have chunks.
C18_Witness ==
  \E p \in Procs :
    /\ op[p].kind = "remove" /\ Idle(p) /\ result[p].status = "error"
    /\ result[p].at = "dfc_file"
    /\ chunks # {}

\* ----------------------------------------------------------------- C19
\* The rows of a table that keep their id over a step keep every column.
KeptAsIs(rows, rows_) == \A r \in rows : \A r_ \in rows_ : r_.id = r.id => r_ = r

\* C19: no step changes a column of an existing Chunk row or File row; rows
\* are only created and deleted.
C19_NeverUpdatedInPlace ==
  [][KeptAsIs(chunks, chunks') /\ KeptAsIs(files, files')]_vars

\* An Update returned after replacing the rows of a file whose hash changed:
\* the old File row is gone and a new one has the path with the new hash.
C19_Witness ==
  \E p \in Procs :
    /\ UpdateReturned(p)
    /\ \E f \in loc[p].files :
         /\ OnDisk(p, f.path) /\ f.hash # DiskHash(p, f.path)
         /\ f \notin files
         /\ \E g \in files : /\ g.documentation_id = f.documentation_id
                             /\ g.path = f.path
                             /\ g.hash = DiskHash(p, f.path)
                             /\ g.id # f.id

\* ----------------------------------------------------------------- C20
\* The rows of a store that do not belong to the documentation of a name.
RowsOfOthers(S, name) ==
  LET docs == {d \in S.documentations : d.name # name}
      fs == {f \in S.files : \E d \in docs : f.documentation_id = d.id}
  IN [documentations |-> docs, files |-> fs, chunks |-> ChunksOf(S, fs)]

\* C20: a command on documentation X leaves the Documentation row, the File
\* rows and the Chunk rows of every other documentation as they were when
\* the command started.
C20_OthersUntouched ==
  \A p \in Procs :
    op[p].kind # "none"
    => RowsOfOthers(Store, op[p].name) = RowsOfOthers(pre[p], op[p].name)

\* An Update or a Remove of a documentation with files returned while
\* another documentation has files with chunks.
C20_Witness ==
  \E p \in Procs :
    /\ op[p].kind \in {"update", "remove"} /\ Idle(p) /\ result[p].status = "ok"
    /\ \E d \in pre[p].documentations :
         d.name = op[p].name /\ ChunksOf(pre[p], FilesOf(pre[p], d.id)) # {}
    /\ RowsOfOthers(Store, op[p].name).chunks # {}

\* ----------------------------------------------------------------- C21
AddReturned(p) == op[p].kind = "add" /\ Idle(p) /\ result[p].status = "ok"

\* C21: after an Add that returned there is exactly one Documentation row
\* of the name, with the repo_url, subdir and branch given; that
\* documentation has exactly one File row per markdown file of the tree,
\* with the relative path and the hash of the file's content, and every one
\* has all the chunks produced for it.
C21_AddIngestsTree ==
  \A p \in Procs :
    AddReturned(p)
    => /\ ~\E d \in pre[p].documentations : d.name = op[p].name
       /\ Cardinality({d \in documentations : d.name = op[p].name}) = 1
       /\ \A d \in documentations :
            d.name = op[p].name
            => /\ d.repo_url = op[p].repo_url
               /\ d.subdir = op[p].subdir
               /\ d.branch = op[p].branch
               /\ {f.path : f \in FilesOf(Store, d.id)} = TreePaths(loc[p].clone)
               /\ \A f, g \in FilesOf(Store, d.id) : f.path = g.path => f = g
               /\ \A f \in FilesOf(Store, d.id) :
                    f.hash = DiskHash(p, f.path) /\ Complete(f)

\* An Add of a tree of two files returned; another Add of a tree with the
\* single file a.md returned before it.
C21_Witness ==
  \E p \in Procs :
    /\ AddReturned(p)
    /\ Cardinality(TreePaths(loc[p].clone)) = 2
    /\ prev[p].kind = "add" /\ TreePaths(prev[p].tree) = {"a.md"}
    /\ \E d \in documentations :
         d.name = prev[p].name /\ Cardinality(FilesOf(Store, d.id)) = 1

\* ----------------------------------------------------------------- C22
\* An Add or an Update whose embed rejected.
EmbedFailed(p) ==
  op[p].kind \in {"add", "update"} /\ result[p].status = "error"
  /\ result[p].at = "aftd_embed"

\* C22: when embed fails the whole Add or Update ends there: the chunk that
\* was being embedded and the chunks after it are not written, no file after
\* the failing one is written, and every Chunk row of the store carries an
\* embedding.
C22_EmbedFailureAborts ==
  /\ \A c \in chunks : c.embedding \in 0..255
  /\ \A p \in Procs :
       EmbedFailed(p)
       => /\ Idle(p)
          /\ \A f \in loc[p].file :
               {c.index : c \in ChunksOf(Store, {f})} = 0..(loc[p].index - 1)
          /\ \A f \in files \ pre[p].files :
               f.path \notin Range(loc[p].md)

\* An Add was abandoned by embed at the second chunk of the first of two
\* files.
C22_Witness ==
  \E p \in Procs :
    /\ EmbedFailed(p) /\ Idle(p) /\ op[p].kind = "add"
    /\ loc[p].index = 1
    /\ loc[p].md # <<>>
    /\ \E f \in loc[p].file : Cardinality(ChunksOf(Store, {f})) = 1

\* ----------------------------------------------------------------- C23
\* C23: the embedding of every Chunk row is embed of the text made of the
\* metadata of that chunk, the delimiter and the content of that chunk, and
\* the row has the index its metadata carries.
C23_EmbeddingOfOwnText ==
  \A c \in chunks :
    /\ c.embedding = embed(embed_text(c.metadata, c.content))
    /\ c.metadata.chunk_index = c.index

\* A file has two chunks with different embeddings.
C23_Witness ==
  \E f \in files :
    \E c, d \in ChunksOf(Store, {f}) :
      c.index = 0 /\ d.index = 1 /\ c.embedding # d.embedding

\* ----------------------------------------------------------------- C30
\* The Chunk rows a step creates.
Created(rows, rows_) == rows_ \ rows

\* C30: inside a file the chunks are written one at a time in index order:
\* a step creates at most one Chunk row, its File row is already in the
\* store, and the row of index i+1 is created when the row of index i is
\* there.
C30_ChunksWrittenInOrder ==
  [][/\ Cardinality(Created(chunks, chunks')) <= 1
     /\ \A c \in Created(chunks, chunks') :
          /\ \E f \in files : f.id = c.file_id
          /\ c.index > 0
             => \E b \in chunks : b.file_id = c.file_id /\ b.index = c.index - 1
          /\ ~\E b \in chunks : b.file_id = c.file_id /\ b.index >= c.index]_vars

\* The second chunk of a file has just been written while the second file
\* of the tree is still to come.
C30_Witness ==
  \E p \in Procs :
    /\ pc[p] \in {"add_loop", "upd_loop"}
    /\ loc[p].md # <<>>
    /\ \E f \in loc[p].file : Cardinality(ChunksOf(Store, {f})) = 2

\* ----------------------------------------------------------------- C25
\* C25: chunk token bound. Every Chunk row add_file_to_documentation writes
\* is a chunk the chunker produced for the file, and unless its metadata
\* flags it as an oversized atomic unit the token count of its content is
\* at most the token limit.
C25_ChunkTokenBound ==
  /\ \A c \in chunks :
       ~c.metadata.oversized => token_count(c.content) <= TokenLimit
  /\ \A p \in Procs : \A f \in loc[p].file :
       \A c \in ChunksOf(Store, {f}) :
         f.path = loc[p].filename
         =>
         /\ c.index + 1 <= Len(loc[p].chunks)
         /\ c.content = loc[p].chunks[c.index + 1].content
         /\ c.metadata = loc[p].chunks[c.index + 1].metadata

\* The file was ingested into two chunks: one of two blocks that reaches the
\* limit and one flagged atomic unit over the limit.
C25_Witness ==
  \E p \in Procs :
    /\ AddReturned(p)
    /\ Cardinality(chunks) = 2
    /\ \E c \in chunks :
         ~c.metadata.oversized /\ Len(c.content) = 2
         /\ token_count(c.content) = TokenLimit
    /\ \E c \in chunks :
         c.metadata.oversized /\ token_count(c.content) > TokenLimit

\* ----------------------------------------------------------------- C27
\* The texts of the config file that pass the Config schema.
ValidText(text) == Config_parse(yaml_parse(text)) # {}

\* C27: the configuration is read once and stored. Over the calls of
\* config.get of one process, in sequence or overlapping, on a config file
\* that is absent or valid and that nothing else writes, the config file is
\* read at most once and all the calls return the same configuration.
C27_ConfigReadOnce ==
  (/\ \A t \in Tasks : result[t].status # "error"
   /\ \A text \in disk.config_file : ValidText(text)
   /\ observed.written \subseteq {yaml_stringify(defaults)})
  => observed.reads <= 1 /\ Cardinality(observed.returned) <= 1

\* ----------------------------------------------------------------- C28
\* C28: the configuration is validated on write and on read. No text that
\* fails the schema is written to the config file; config.get over a text
\* that fails the schema ends with an error, returns nothing and caches
\* nothing, so that nothing invalid is ever returned or cached and a later
\* get reads and validates again.
C28_ConfigValidated ==
  /\ \A text \in observed.written : ValidText(text)
  /\ \A c \in config \cup observed.returned : Config_parse(c) = {c}
  /\ config \subseteq observed.returned
  /\ \A t \in Tasks :
       /\ (op[t].kind = "set" /\ pc[t] = "idle" /\ result[t].status = "ok")
          => \A v \in op[t].value : Config_parse(v) # {}
       /\ (op[t].kind = "get" /\ pc[t] = "idle" /\ result[t].status = "ok")
          => loc[t].config # {} /\ loc[t].config \subseteq observed.returned
       /\ (op[t].kind = "get" /\ pc[t] = "idle" /\ result[t].status = "error")
          => loc[t].config = {} /\ \A text \in loc[t].text : ~ValidText(text)
       /\ (op[t].kind = "set" /\ pc[t] = "idle" /\ result[t].status = "error")
          => \A v \in op[t].value : yaml_stringify(v) \notin observed.written

\* A get failed on a config file with a typo and cached nothing, the get
\* after it read the file again and failed again, and a set of a value that
\* is not a string was refused without a write.
C28_Witness ==
  /\ observed.reads = 2
  /\ config = {}
  /\ observed.written = {}
  /\ \E t \in Tasks :
       op[t].kind = "get" /\ pc[t] = "idle" /\ result[t].status = "error"
  /\ \E t \in Tasks :
       op[t].kind = "set" /\ pc[t] = "idle" /\ result[t].status = "error"

\* ----------------------------------------------------------------- C24
\* The get command returned.
GetReturned(p) == op[p].kind = "get" /\ Idle(p) /\ result[p].status = "ok"

\* The ids of the chunks a command printed as its results, in order.
Results ==
  LET printed == SelectSeq(io.stdout, LAMBDA e : e.what = "result")
  IN [i \in 1..Len(printed) |-> printed[i].chunk]

\* C24: retrieval returns the K stored chunks nearest to the embedding of
\* the prompt, nearest first, ties by ascending chunk id.
C24_RetrieveNearest ==
  \A p \in Procs :
    GetReturned(p)
    => LET query == query_vector(CHOOSE prompt \in loc[p].prompt : TRUE)
           nearest == Nearest(chunks, query, op[p].count)
       IN Results = [i \in 1..Len(nearest) |-> nearest[i].id]

\* ----------------------------------------------------------------- C26
\* Where the process is while init runs.
InitPcs == {"main", "cfg_get", "cfg_exists", "cfg_set", "cfg_assign", "cfg_read",
            "cfg_parse", "db_exists_file", "init_if", "db_create_open"}

\* C26: initialization precedes every command. No command action runs
\* while init runs; when one runs, the database file of the configuration
\* exists, and init created it if and only if it was not there; when init
\* fails no command action runs and the process exits with status 1.
C26_InitBeforeCommand ==
  \A p \in Procs :
    /\ pc[p] \in InitPcs \cup {"main_catch"} => observed.actions = 0
    /\ observed.actions <= 1
    /\ observed.actions = 1
       => /\ config # {}
          /\ \A c \in config :
               /\ c.database_path.value \in disk.databases
               /\ observed.created = {c.database_path.value} \ observed.found
    /\ result[p].status = "error"
       => /\ observed.actions = 0
          /\ Idle(p) => io.exit = {1}

\* A command action ran in a process that found neither a config file nor
\* a database and created both.
C26_Witness ==
  \E p \in Procs :
    /\ Idle(p) /\ result[p].status = "ok" /\ io.exit = {0}
    /\ observed.actions = 1
    /\ observed.found = {}
    /\ observed.written # {}
    /\ observed.created = {defaults.database_path.value}

\* ----------------------------------------------------------------- C29
\* C29: get takes its prompt from the argument when the argument is given
\* and does not read stdin then; it reads the prompt from stdin when no
\* argument is given.
C29_PromptFromArgumentOrStdin ==
  \A p \in Procs :
    (op[p].kind = "get" /\ (pc[p] = "get_log" \/ GetReturned(p)))
    => IF op[p].prompt # {}
         THEN loc[p].prompt = op[p].prompt /\ ~io.stdin_read
         ELSE loc[p].prompt = {io.stdin} /\ io.stdin_read

\* ----------------------------------------------------------------- C31
\* C31: after an Update that returns without error, whatever rows the store
\* held before it, the File rows of the documentation mirror the markdown
\* files of the checked-out tree: one File row for every path on disk, no
\* two File rows for one path, none for a path that is not on disk, each
\* with the hash of the content on disk and with its complete chunk set.
C31_UpdateMirrorsDisk ==
  \A p \in Procs :
    UpdateReturned(p) =>
      \A id \in DocIds(p) :
        /\ {f.path : f \in FilesOf(Store, id)} = TreePaths(loc[p].clone)
        /\ \A f, g \in FilesOf(Store, id) : f.path = g.path => f = g
        /\ \A f \in FilesOf(Store, id) :
             OnDisk(p, f.path) => f.hash = DiskHash(p, f.path) /\ Complete(f)

\* An Update returned on a documentation whose tracked files had one file
\* gone from disk and one file changed on disk.
C31_Witness ==
  \E p \in Procs :
    /\ UpdateReturned(p)
    /\ \E f \in loc[p].files : ~OnDisk(p, f.path)
    /\ \E f \in loc[p].files : OnDisk(p, f.path) /\ f.hash # DiskHash(p, f.path)
    /\ \E id \in DocIds(p) : FilesOf(Store, id) # {}

\* ----------------------------------------------------------------- C32
\* The checkout of an Add was rejected.
AddCheckoutFailed(p) ==
  op[p].kind = "add" /\ result[p].status = "error" /\ result[p].at = "add_clone"

\* C32: Add obtains the checkout before it creates the Documentation row:
\* while Add is at clone_repo the store is the store Add started with, with
\* no Documentation row of that name, and an Add that holds its
\* Documentation row has checked the repository out.  When the checkout
\* fails, Add fails with the store as it was and no row of that name.
C32_CheckoutBeforeCreate ==
  \A p \in Procs :
    /\ (op[p].kind = "add" /\ pc[p] = "add_clone")
       => Store = pre[p] /\ ~documentations_has(op[p].name)
    /\ (op[p].kind = "add" /\ loc[p].documentation # {}) => loc[p].checkout # {}
    /\ AddCheckoutFailed(p)
       => /\ Idle(p)
          /\ Store = pre[p]
          /\ ~documentations_has(op[p].name)
          /\ loc[p].documentation = {}

\* The checkout of an Add failed on a store that holds another
\* documentation with its files and chunks.
C32_Witness ==
  \E p \in Procs :
    /\ AddCheckoutFailed(p) /\ Idle(p)
    /\ documentations # {} /\ files # {} /\ chunks # {}

\* ----------------------------------------------------------------- C33
\* The checkout of an Update was rejected.
UpdateCheckoutFailed(p) ==
  op[p].kind = "update" /\ result[p].status = "error" /\ result[p].at = "upd_clone"

\* C33: when the checkout fails during an Update, the store is left as it
\* was before the Update: the Documentation row keeps the repo_url, subdir
\* and branch it had.
C33_FailedCheckoutLeavesStore ==
  \A p \in Procs :
    UpdateCheckoutFailed(p)
    => /\ Idle(p)
       /\ Store = pre[p]
       /\ \A d \in documentations_get(op[p].name) :
            \E e \in pre[p].documentations :
              /\ e.id = d.id
              /\ e.repo_url = d.repo_url
              /\ e.subdir = d.subdir
              /\ e.branch = d.branch

\* ----------------------------------------------------------------- C34
\* C34: the delete-unseen pass at the end of Update deletes only File rows
\* of the snapshot read before the reconciliation loop, and only their
\* Chunk rows: every File row and Chunk row it deletes was in the store
\* when the Update started, so no row created during the same Update is
\* deleted.
C34_DeleteOnlySnapshot ==
  [][\A p \in Procs :
       (op[p].kind = "update" /\ pc[p] \in DfcPcs)
       => /\ Range(loc[p].todel) \subseteq loc[p].files
          /\ (files \ files') \subseteq (loc[p].files \cap pre[p].files)
          /\ (chunks \ chunks') \subseteq ChunksOf(pre[p], loc[p].files)]_vars

\* An Update returned after its delete-unseen pass deleted every File row
\* of the snapshot, and the File rows and Chunk rows it created are there.
C34_Witness ==
  \E p \in Procs :
    /\ UpdateReturned(p)
    /\ result[p].at = "dfc_file"
    /\ loc[p].files # {}
    /\ loc[p].files \cap files = {}
    /\ files \ pre[p].files # {}
    /\ chunks \ pre[p].chunks # {}

\* ----------------------------------------------------------------- C35
\* init has returned without error: the command is being parsed or run.
InitReturned(p) ==
  \/ pc[p] \in {"main_parse", "get_prompt", "get_log"}
  \/ Idle(p) /\ result[p].status = "ok"

\* C35: over any sequence of program starts, also after a start in which
\* the creation of the database failed part-way, when init has returned
\* without error the configured database holds the tables documentations,
\* files and chunks.
C35_InitMeansSchema ==
  \A p \in Procs :
    InitReturned(p)
    => /\ loc[p].database_path # {}
       /\ loc[p].database_path \subseteq disk.tables

\* ----------------------------------------------------------------- C36
\* C36: config write-read round trip. A config.get called after a
\* config.set(c) with a valid c has completed returns c, whether or not
\* config.get had been called before the set.
C36_SetGetRoundTrip ==
  \A t \in Tasks :
    (op[t].kind = "get" /\ pc[t] = "idle" /\ result[t].status = "ok"
       /\ loc[t].after # {})
    => loc[t].config = loc[t].after

\* ----------------------------------------------------------------- C37
\* The statements of config.get.
GetPcs == {"cfg_get", "cfg_exists", "cfg_set", "cfg_assign", "cfg_read", "cfg_parse"}

\* C37: a config.get that finds no config file writes the default
\* configuration to the config file and returns the defaults; a config.get
\* that finds a config file writes nothing: the only statement of get that
\* writes is the one on the branch taken when exists() answered that there
\* is no file.
C37_DefaultsWrittenWhenAbsent ==
  [][\A t \in Tasks :
       (pc[t] \in GetPcs /\ pc'[t] # pc[t]) =>
         /\ pc[t] = "cfg_exists"
            => pc'[t] = IF disk.config_file = {} THEN "cfg_set" ELSE "cfg_read"
         /\ pc[t] = "cfg_set"
            => /\ disk'.config_file = {yaml_stringify(defaults)}
               /\ observed'.written = observed.written \cup {yaml_stringify(defaults)}
               /\ pc'[t] = "cfg_assign"
         /\ pc[t] = "cfg_assign"
            => /\ loc'[t].config = {defaults}
               /\ result'[t].status = "ok"
         /\ pc[t] # "cfg_set"
            => disk' = disk /\ observed'.written = observed.written]_vars

\* A get that found no config file wrote the defaults and returned them,
\* and a get that found the file just written read it and wrote nothing.
C37_Witness ==
  \E t, u \in Tasks :
    /\ op[t].kind = "get" /\ pc[t] = "idle"
    /\ result[t] = [at |-> "cfg_assign", status |-> "ok"]
    /\ loc[t].config = {defaults}
    /\ op[u].kind = "get" /\ pc[u] = "idle"
    /\ result[u] = [at |-> "cfg_parse", status |-> "ok"]
    /\ disk.config_file = {yaml_stringify(defaults)}
    /\ observed.written = {yaml_stringify(defaults)}
    /\ observed.reads = 1
====
